---- MODULE Spec2Model ----
(***************************************************************************)
(* Room synchronisation engine of the websocket game server (src/ws).      *)
(* The registry `clients` maps every connection to its own list of room    *)
(* replicas; handlers mutate the replicas under the mutex `mu` and fan     *)
(* messages out to the connections that hold a replica for a game code.    *)
(* One action per handler of handleClient's dispatch.  Frames are served   *)
(* one at a time: while a handler runs, `last` is the frame it serves and  *)
(* `sent` the socket writes it makes; Return is the handler's return to    *)
(* the read loop; `steps` lists, in program order, the registry updates,   *)
(* collaborator calls and sends the handler made and whether it owned mu.  *)
(* `pc` is the position of each connection's goroutine inside a handler    *)
(* whose steps are interleaved with other goroutines' (SpecRace); it stays *)
(* at NoTask where handlers are taken one at a time.                       *)
(***************************************************************************)
EXTENDS Integers, Sequences, FiniteSets, TLC

VARIABLES clients, connState, mu, sent, last, steps, pc

vars == <<clients, connState, mu, sent, last, steps, pc>>

(***************************** bounds **************************************)
NumConns == 2
NumSessions == 2
\* cap on the number of User entries the registry holds in all
MaxEntries == 2

Conns == 1..NumConns
Sessions == 1..NumSessions
Games == {"g1"}
NoGame == ""

(************************* program constants *******************************)
StatusOK == 200

(*************************** data types ************************************)
\* User{Login, SessionID} as constructed by handleUserInfo: GameID and the
\* round flags keep Go's zero values.
User(login, sid) ==
  [Login |-> login, SessionID |-> sid, GameID |-> NoGame,
   Ready |-> FALSE, Turn |-> FALSE, Voted |-> FALSE, InGame |-> FALSE]

Room(g) == [GameID |-> g, started |-> FALSE, Users |-> <<>>]

LoginOf(sid) == "u"

setVoted(u, status) == [u EXCEPT !.Voted = status]

setInGame(u, status) == [u EXCEPT !.InGame = status]

(********************** collaborator responses *****************************)
\* What GET /text can answer: a transport error, a non-200 status, a 200
\* with an empty text, a 200 with a prompt.
TextResponses ==
  { [neterr |-> TRUE,  code |-> 0,   text |-> ""],
    [neterr |-> FALSE, code |-> 404, text |-> ""],
    [neterr |-> FALSE, code |-> 200, text |-> ""],
    [neterr |-> FALSE, code |-> 200, text |-> "prompt"] }

\* What POST /exit can answer: transport error, 400, 200 with a JSON body,
\* 200 with a body that is no JSON.
ExitResponses ==
  { [neterr |-> TRUE,  code |-> 0,   json |-> FALSE],
    [neterr |-> FALSE, code |-> 400, json |-> TRUE],
    [neterr |-> FALSE, code |-> 200, json |-> FALSE],
    [neterr |-> FALSE, code |-> 200, json |-> TRUE] }

NoResp == [neterr |-> FALSE, code |-> 0, text |-> "", json |-> FALSE]

\* A fetch that does not check the text it decoded.
GetText_AcceptEmpty(resp) ==
  IF resp.neterr THEN [text |-> "", err |-> TRUE]
  ELSE IF resp.code # StatusOK THEN [text |-> "", err |-> TRUE]
  ELSE [text |-> resp.text, err |-> FALSE]

GetText(resp) ==
  IF resp.neterr THEN [text |-> "", err |-> TRUE]
  ELSE IF resp.code # StatusOK THEN [text |-> "", err |-> TRUE]
  ELSE IF resp.text = "" THEN [text |-> "", err |-> TRUE]
  ELSE [text |-> resp.text, err |-> FALSE]

\* deleteUser reaches its mu.Lock() exactly when /exit answers 200 with a
\* JSON body.
deleteUserLocks(resp) ==
  ~resp.neterr /\ resp.code = StatusOK /\ resp.json

(************************** registry scans *********************************)
\* The (connection, room index) pairs whose replica carries game code g.
RoomsOf(cl, g) ==
  UNION { { <<c, i>> : i \in { j \in 1..Len(cl[c]) : cl[c][j].GameID = g } }
          : c \in DOMAIN cl }

\* The (connection, room index, user index) triples of the User entries in
\* the replicas for g.
Entries(cl, g) ==
  UNION { { <<p[1], p[2], k>> : k \in 1..Len(cl[p[1]][p[2]].Users) }
          : p \in RoomsOf(cl, g) }

UserAt(cl, e) == cl[e[1]][e[2]].Users[e[3]]

clientsMoved(cl, g) == Cardinality({ e \in Entries(cl, g) : UserAt(cl, e).Turn })

ClientsInGame(cl, g) == Cardinality({ e \in Entries(cl, g) : UserAt(cl, e).InGame })

ClientsInRoom(cl, g) == Cardinality(Entries(cl, g))

clientsReady(cl, g) == Cardinality({ e \in Entries(cl, g) : UserAt(cl, e).Ready })

\* Index of the first User with the session id (the loops `break` on the
\* first match), 0 when there is none.
FirstUser(users, sid) ==
  IF \E k \in 1..Len(users) : users[k].SessionID = sid
  THEN CHOOSE k \in 1..Len(users) :
         /\ users[k].SessionID = sid
         /\ \A j \in 1..(k - 1) : users[j].SessionID # sid
  ELSE 0

FirstRoom(rooms, g) ==
  IF \E i \in 1..Len(rooms) : rooms[i].GameID = g
  THEN CHOOSE i \in 1..Len(rooms) :
         /\ rooms[i].GameID = g
         /\ \A j \in 1..(i - 1) : rooms[j].GameID # g
  ELSE 0

RemoveAt(s, i) == SubSeq(s, 1, i - 1) \o SubSeq(s, i + 1, Len(s))

\* A roster that keeps only the newest User.
addUserToRoom_Overwrite(room, user) == [room EXCEPT !.Users = << user >>]

addUserToRoom(room, user) == [room EXCEPT !.Users = Append(@, user)]

removeUserFromRoom(room, sid) ==
  LET k == FirstUser(room.Users, sid)
  IN IF k = 0 THEN room ELSE [room EXCEPT !.Users = RemoveAt(@, k)]

(***************************** socket writes *******************************)
\* conn.WriteMessage fails on a connection whose socket is closed.
WriteOK(cs, c) == cs[c] = "open"

\* One socket write per element of `to`; `ok` are the writes that succeeded
\* and `err` is the error the send function returns to the handler; `locked`
\* tells whether the sending task owns mu while it scans the registry for
\* the targets and writes to them.
Msg(type, g, sid, flag, text, to, ok) ==
  [type |-> type, game |-> g, sid |-> sid, flag |-> flag, text |-> text,
   to |-> to, ok |-> ok, err |-> FALSE, locked |-> FALSE]

\* A send made by a task that owns mu.
UnderLock(m) == [m EXCEPT !.locked = TRUE]

\* One step of a handler: a registry update, a collaborator call or a send,
\* whether the task owned mu during it, and whether the call failed.
Step(op, locked, failed) == [op |-> op, locked |-> locked, failed |-> failed]

\* A fan-out that gives up at the first failed write and returns its error.
SendMessageToGameClients_Abort(cl, cs, type, g, sid, flag, text) ==
  IF \E p \in RoomsOf(cl, g) : ~WriteOK(cs, p[1])
  THEN [Msg(type, g, sid, flag, text,
            { p \in RoomsOf(cl, g) : ~WriteOK(cs, p[1]) }, {}) EXCEPT !.err = TRUE]
  ELSE Msg(type, g, sid, flag, text, RoomsOf(cl, g), RoomsOf(cl, g))

\* One goroutine per (connection, room) whose replica matches g; a failed
\* write is logged, wg.Wait() joins them all and nil is returned.
SendMessageToGameClients(cl, cs, type, g, sid, flag, text) ==
  Msg(type, g, sid, flag, text, RoomsOf(cl, g),
      { p \in RoomsOf(cl, g) : WriteOK(cs, p[1]) })

SendDeleteMessage(cl, cs, g) ==
  Msg("Delete", g, 0, FALSE, "", RoomsOf(cl, g),
      { p \in RoomsOf(cl, g) : WriteOK(cs, p[1]) })

\* SendStartGameMessageAndMark: every User of g's replicas becomes InGame.
MarkInGame(cl, g) ==
  [c \in DOMAIN cl |->
    [i \in 1..Len(cl[c]) |->
      IF cl[c][i].GameID = g
      THEN [cl[c][i] EXCEPT !.Users =
              [k \in 1..Len(cl[c][i].Users) |-> setInGame(cl[c][i].Users[k], TRUE)]]
      ELSE cl[c][i]]]

\* The scan, the writes and wg.Wait() all run between mu.Lock() and the
\* deferred mu.Unlock() of SendStartGameMessageAndMark.
SendStartGameMessage(cl, cs, g, text) ==
  UnderLock(Msg("Start", g, 0, TRUE, text, RoomsOf(cl, g),
                { p \in RoomsOf(cl, g) : WriteOK(cs, p[1]) }))

\* sendChatMessage: under mu, one write per replica for g, one after the
\* other; a failed write is logged.
sendChatMessage(cl, cs, g) ==
  UnderLock(Msg("Chat", g, 0, FALSE, "", RoomsOf(cl, g),
                { p \in RoomsOf(cl, g) : WriteOK(cs, p[1]) }))

(*************************** replica updates *******************************)
\* A toggle that ignores the started flag.
StatusFlipRoom_Always(room, sid) ==
  IF FirstUser(room.Users, sid) = 0 THEN room
  ELSE [room EXCEPT !.Users[FirstUser(room.Users, sid)].Ready = ~@]

\* handleStatus, first locked section: in every replica for g that is not
\* started the first User with the session id gets its Ready flag flipped.
StatusFlipRoom(room, sid) ==
  LET k == FirstUser(room.Users, sid)
  IN IF room.started \/ k = 0 THEN room
     ELSE [room EXCEPT !.Users[k].Ready = ~@]

StatusFlip(cl, g, sid) ==
  [c \in DOMAIN cl |->
    [i \in 1..Len(cl[c]) |->
      IF cl[c][i].GameID = g THEN StatusFlipRoom(cl[c][i], sid) ELSE cl[c][i]]]

\* The values status.Status can end with: the new Ready value of the replica
\* the map iteration visits last.
StatusFlipValues(cl, g, sid) ==
  { ~cl[p[1]][p[2]].Users[FirstUser(cl[p[1]][p[2]].Users, sid)].Ready :
      p \in { q \in RoomsOf(cl, g) :
                /\ ~cl[q[1]][q[2]].started
                /\ FirstUser(cl[q[1]][q[2]].Users, sid) # 0 } }

\* handleStatus, second locked section: the assignments sit inside the loop
\* over the Users, so a replica without Users keeps its started flag.
StatusResetRoom(room) ==
  [room EXCEPT
     !.started = IF Len(room.Users) > 0 THEN TRUE ELSE @,
     !.Users = [k \in 1..Len(room.Users) |->
                  [room.Users[k] EXCEPT !.Ready = FALSE, !.Turn = FALSE]]]

StatusReset(cl, g) ==
  [c \in DOMAIN cl |->
    [i \in 1..Len(cl[c]) |->
      IF cl[c][i].GameID = g THEN StatusResetRoom(cl[c][i]) ELSE cl[c][i]]]

\* handleAction, first locked section.
ActionMarkRoom(room, sid) ==
  LET k == FirstUser(room.Users, sid)
  IN IF k = 0 \/ room.Users[k].Turn THEN room
     ELSE [room EXCEPT !.Users[k].Turn = TRUE]

ActionMark(cl, g, sid) ==
  [c \in DOMAIN cl |->
    [i \in 1..Len(cl[c]) |->
      IF cl[c][i].GameID = g THEN ActionMarkRoom(cl[c][i], sid) ELSE cl[c][i]]]

userTurned(cl, g, sid) ==
  \E p \in RoomsOf(cl, g) :
    LET us == cl[p[1]][p[2]].Users
    IN FirstUser(us, sid) # 0 /\ us[FirstUser(us, sid)].Turn

\* handleAction, second locked section: started and Voted are cleared inside
\* the loop over the Users; Turn is left alone.
ActionResetRoom(room) ==
  [room EXCEPT
     !.started = IF Len(room.Users) > 0 THEN FALSE ELSE @,
     !.Users = [k \in 1..Len(room.Users) |-> [room.Users[k] EXCEPT !.Voted = FALSE]]]

ActionReset(cl, g) ==
  [c \in DOMAIN cl |->
    [i \in 1..Len(cl[c]) |->
      IF cl[c][i].GameID = g THEN ActionResetRoom(cl[c][i]) ELSE cl[c][i]]]

\* handleChoose, locked section.
ChooseMarkRoom(room, sid) ==
  LET k == FirstUser(room.Users, sid)
  IN IF k = 0 \/ room.Users[k].Voted THEN room
     ELSE [room EXCEPT !.Users[k] = setVoted(@, TRUE)]

ChooseMark(cl, g, sid) ==
  [c \in DOMAIN cl |->
    [i \in 1..Len(cl[c]) |->
      IF cl[c][i].GameID = g THEN ChooseMarkRoom(cl[c][i], sid) ELSE cl[c][i]]]

\* A handler that never notices an earlier vote.
userVoted_Never(cl, g, sid) == FALSE

userVoted(cl, g, sid) ==
  \E p \in RoomsOf(cl, g) :
    LET us == cl[p[1]][p[2]].Users
    IN FirstUser(us, sid) # 0 /\ us[FirstUser(us, sid)].Voted

\* disconnectUser: the first User found with the session id, in the map's
\* iteration order, is removed and the connection that holds it is closed.
\* The replicas of the other connections are not visited.
HoldersOfUser(cl, sid) ==
  { c \in DOMAIN cl : \E i \in 1..Len(cl[c]) : FirstUser(cl[c][i].Users, sid) # 0 }

FirstRoomWithUser(rooms, sid) ==
  CHOOSE i \in 1..Len(rooms) :
    /\ FirstUser(rooms[i].Users, sid) # 0
    /\ \A j \in 1..(i - 1) : FirstUser(rooms[j].Users, sid) = 0

disconnectUser(cl, c, sid) ==
  [cl EXCEPT ![c][FirstRoomWithUser(cl[c], sid)] = removeUserFromRoom(@, sid)]

\* conn.Close() on the connection disconnectUser picked.
CloseConn(cs, c) == [cs EXCEPT ![c] = IF @ = "open" THEN "closed" ELSE @]

\* updateGame, first branch: Turn and Voted are cleared, started is not.
UpdateMovedResetRoom(room) ==
  [room EXCEPT !.Users = [k \in 1..Len(room.Users) |->
                            [room.Users[k] EXCEPT !.Turn = FALSE, !.Voted = FALSE]]]

UpdateMovedReset(cl, g) ==
  [c \in DOMAIN cl |->
    [i \in 1..Len(cl[c]) |->
      IF cl[c][i].GameID = g THEN UpdateMovedResetRoom(cl[c][i]) ELSE cl[c][i]]]

\* updateGame, second branch: only Ready is cleared.
UpdateReadyResetRoom(room) ==
  [room EXCEPT !.Users = [k \in 1..Len(room.Users) |->
                            [room.Users[k] EXCEPT !.Ready = FALSE]]]

UpdateReadyReset(cl, g) ==
  [c \in DOMAIN cl |->
    [i \in 1..Len(cl[c]) |->
      IF cl[c][i].GameID = g THEN UpdateReadyResetRoom(cl[c][i]) ELSE cl[c][i]]]

RECURSIVE ConcatAll(_)
ConcatAll(ss) == IF ss = << >> THEN << >> ELSE Head(ss) \o ConcatAll(Tail(ss))

\* sendUserStatus(user.SessionID, user.GameID, ...): a Status with
\* status=false, addressed to the game code stored in the User entry.
sendUserStatus(cl, cs, user) ==
  SendMessageToGameClients(cl, cs, "Status", user.GameID, user.SessionID, FALSE, "")

\* The sendUserStatus calls of updateGame's last loop, one per User entry of
\* g's replicas, listed by connection, room and roster position.
\* updateGame owns mu while the loop runs.
UpdateStatusMsgs(cl, cs, g) ==
  ConcatAll([c \in 1..NumConns |->
    ConcatAll([i \in 1..Len(cl[c]) |->
      IF cl[c][i].GameID = g
      THEN [k \in 1..Len(cl[c][i].Users) |->
              UnderLock(sendUserStatus(cl, cs, cl[c][i].Users[k]))]
      ELSE << >>])])

\* One "send" step per message of a list.
SendSteps(msgs) == [i \in 1..Len(msgs) |-> Step("send", msgs[i].locked, FALSE)]

updateGameMoved(cl, g) == ClientsInGame(cl, g) = clientsMoved(cl, g)

updateGameAfterMoved(cl, g) ==
  IF updateGameMoved(cl, g) THEN UpdateMovedReset(cl, g) ELSE cl

updateGameReady(cl, g) ==
  ClientsInRoom(updateGameAfterMoved(cl, g), g) = clientsReady(updateGameAfterMoved(cl, g), g)

\* updateGame(game_id, conn): the registry it leaves, the writes it makes
\* and its steps.
updateGame(cl, cs, g, resp) ==
  LET cl1 == updateGameAfterMoved(cl, g)
      del == IF updateGameMoved(cl, g) THEN << SendDeleteMessage(cl, cs, g) >> ELSE << >>
      delSteps == IF updateGameMoved(cl, g)
                  THEN SendSteps(del) \o << Step("reset", TRUE, FALSE) >> ELSE << >>
      txt == GetText(resp)
      cl2 == UpdateReadyReset(MarkInGame(cl1, g), g)
      start == << SendStartGameMessage(cl1, cs, g, txt.text) >>
  IN IF ~updateGameReady(cl, g)
     THEN [clients |-> cl1, sent |-> del,
           steps |-> << Step("reeval", FALSE, FALSE) >> \o delSteps]
     ELSE IF txt.err
     THEN [clients |-> cl1, sent |-> del,
           steps |-> << Step("reeval", FALSE, FALSE) >> \o delSteps
                       \o << Step("fetch", FALSE, TRUE) >>]
     ELSE [clients |-> cl2,
           sent |-> del \o start \o UpdateStatusMsgs(cl2, cs, g),
           steps |-> << Step("reeval", FALSE, FALSE) >> \o delSteps
                       \o << Step("fetch", FALSE, FALSE) >> \o SendSteps(start)
                       \o << Step("reset", TRUE, FALSE) >>
                       \o SendSteps(UpdateStatusMsgs(cl2, cs, g))]

\* A unicast that writes to every connection holding a User entry for dest.
sendUpdateInfoToClient_All(cl, cs, c, sid, dest) ==
  UnderLock(Msg("GameInfo", NoGame, sid, FALSE, "",
                { <<d, FirstRoomWithUser(cl[d], dest)>> : d \in HoldersOfUser(cl, dest) },
                { <<d, FirstRoomWithUser(cl[d], dest)>> :
                    d \in { h \in HoldersOfUser(cl, dest) : WriteOK(cs, h) } }))

\* sendUpdateInfoToClient: under mu, one write to the connection c on which
\* the scan first met a User entry for dest.
sendUpdateInfoToClient(cl, cs, c, sid, dest) ==
  LET i == FirstRoomWithUser(cl[c], dest)
  IN UnderLock(Msg("GameInfo", NoGame, sid, FALSE, "", { <<c, i>> },
                   { p \in { <<c, i>> } : WriteOK(cs, c) }))

TotalEntries(cl) ==
  Cardinality(UNION { UNION { { <<c, i, k>> : k \in 1..Len(cl[c][i].Users) }
                              : i \in 1..Len(cl[c]) } : c \in DOMAIN cl })

(****************************** events *************************************)
\* The frame the handler in progress serves: its type tag, the connection
\* the handler works on, the payload's session id, game code and flag, and
\* the collaborator's answer where one was asked for; dest is the
\* destination session id of a GameInfo.
Ev(type, c, sid, g, flag, resp) ==
  [type |-> type, tag |-> type, conn |-> c, sid |-> sid, game |-> g, flag |-> flag,
   resp |-> resp, dest |-> 0]

\* No handler is in progress.
Idle == last.type = "Idle"

\* The read loop of c is between two frames and can take the registry lock.
Serving(c) == Idle /\ connState[c] = "open" /\ mu = 0

Tags == {"UserInfo", "Action", "Status", "Choose", "GameInfo", "Disconnect", "Chat"}

\* The goroutine of a connection inside handleStatus: the statement it is
\* at, the decoded payload (status.User.SessionId, status.User.GameId,
\* status.Status), the locals users and readyUsers, and the fetched text.
Task(at, sid, g, flag, users, ready, text) ==
  [at |-> at, sid |-> sid, game |-> g, flag |-> flag,
   users |-> users, readyUsers |-> ready, text |-> text]

\* The goroutine is in conn.ReadMessage().
NoTask == Task("read", 0, NoGame, FALSE, 0, 0, "")

(*************************** initial state *********************************)
Init ==
  /\ pc = [c \in Conns |-> NoTask]
  /\ clients = [c \in Conns |-> << >>]
  /\ connState = [c \in Conns |-> "idle"]
  /\ mu = 0
  /\ sent = << >>
  /\ steps = << >>
  /\ last = Ev("Idle", 0, 0, NoGame, FALSE, NoResp)

\* main: the upgrade handshake succeeded and handleClient starts its loop.
Connect(c) ==
  /\ UNCHANGED pc
  /\ Idle
  /\ connState[c] = "idle"
  /\ connState' = [connState EXCEPT ![c] = "open"]
  /\ sent' = << >>
  /\ steps' = << >>
  /\ last' = Ev("Connect", c, 0, NoGame, FALSE, NoResp)
  /\ UNCHANGED <<clients, mu>>

\* handleClient's deferred function: the connection leaves the registry and
\* its socket is closed.
Unregister(cl, c) == [cl EXCEPT ![c] = << >>]

\* conn.ReadMessage() returns an error: the peer went away, or the socket
\* was closed by disconnectUser.  The loop breaks and the deferred function
\* runs: with mu free it unregisters and closes the connection; with mu
\* owned by a task that never releases it, it blocks in mu.Lock() and the
\* connection stays in the registry ("stuck").
ReadLoopEnd(c) ==
  /\ UNCHANGED pc
  /\ Idle
  /\ connState[c] \in {"open", "closed"}
  /\ mu # c
  /\ IF mu = 0
     THEN /\ clients' = Unregister(clients, c)
          /\ connState' = [connState EXCEPT ![c] = "idle"]
     ELSE /\ connState' = [connState EXCEPT ![c] = "stuck"]
          /\ UNCHANGED clients
  /\ sent' = << >>
  /\ steps' = << >>
  /\ last' = Ev("ReadEnd", c, 0, NoGame, FALSE, NoResp)
  /\ UNCHANGED mu

\* A frame the router drops: the envelope does not unmarshal, the tag is
\* unknown, or the payload does not unmarshal for its tag.
DropFrame(c) ==
  /\ UNCHANGED pc
  /\ Idle
  /\ connState[c] = "open"
  /\ mu # c
  /\ \E kind \in {"BadEnvelope", "UnknownTag", "BadPayload"} :
       last' = Ev(kind, c, 0, NoGame, FALSE, NoResp)
  /\ sent' = << >>
  /\ steps' = << >>
  /\ UNCHANGED <<clients, connState, mu>>

\* A payload that unmarshals with its user field absent: the handler
\* dereferences the nil User and panics.  handleStatus panics inside its
\* first locked section when the registry holds a room (mu stays locked and
\* handleClient's deferred function blocks on it); every other handler
\* panics with mu free or released by a deferred Unlock, and handleClient's
\* deferred function unregisters and closes the connection.
NilUserFrame(c) ==
  /\ UNCHANGED pc
  /\ Serving(c)
  /\ \E tag \in Tags :
       /\ IF tag = "Status" /\ \E d \in Conns : clients[d] # << >>
          THEN /\ mu' = c
               /\ UNCHANGED <<clients, connState>>
          ELSE /\ clients' = Unregister(clients, c)
               /\ connState' = [connState EXCEPT ![c] = "idle"]
               /\ UNCHANGED mu
       /\ last' = [Ev("NilUser", c, 0, NoGame, FALSE, NoResp) EXCEPT !.tag = tag]
  /\ sent' = << >>
  /\ steps' = << >>

\* A join that never looks for the connection's replica and always creates
\* a new one.
UserInfoJoin_AlwaysCreate(cl, c, s, g) ==
  [cl EXCEPT ![c] = Append(@, addUserToRoom(Room(g), User(LoginOf(s), s)))]

\* handleUserInfo, locked section with connected = true: the User is
\* appended to c's replica for g, which is created when c has none.
UserInfoJoin(cl, c, s, g) ==
  IF FirstRoom(cl[c], g) # 0
  THEN [cl EXCEPT ![c][FirstRoom(cl[c], g)] = addUserToRoom(@, User(LoginOf(s), s))]
  ELSE [cl EXCEPT ![c] = Append(@, addUserToRoom(Room(g), User(LoginOf(s), s)))]

\* handleUserInfo, locked section with connected = false.
UserInfoLeave(cl, c, s, g) ==
  IF FirstRoom(cl[c], g) # 0
  THEN [cl EXCEPT ![c][FirstRoom(cl[c], g)] = removeUserFromRoom(@, s)]
  ELSE [cl EXCEPT ![c] = Append(@, Room(g))]

\* The two broadcasts that end handleUserInfo, made before the deferred
\* mu.Unlock() runs.
UserInfoSent(cl, cs, s, g, connected) ==
  << UnderLock(SendMessageToGameClients(cl, cs, "UserInfo", g, s, connected, "")),
     UnderLock(SendMessageToGameClients(cl, cs, "Update", g, s, FALSE, "")) >>

\* The collaborator call did not succeed.
CallFailed(resp) == resp.neterr \/ resp.code # StatusOK \/ ~resp.json

\* handleUserInfo for a payload that decodes and carries a user.
handleUserInfo(c) ==
  /\ UNCHANGED pc
  /\ Serving(c)
  /\ \E s \in Sessions, g \in Games, connected \in BOOLEAN :
       IF connected
       THEN /\ TotalEntries(clients) < MaxEntries
            /\ clients' = UserInfoJoin(clients, c, s, g)
            /\ sent' = UserInfoSent(UserInfoJoin(clients, c, s, g), connState, s, g, TRUE)
            /\ steps' = << Step("append", TRUE, FALSE) >> \o SendSteps(sent')
            /\ last' = Ev("UserInfo", c, s, g, TRUE, NoResp)
            /\ UNCHANGED <<connState, mu>>
       ELSE \E resp \in (IF FirstRoom(clients[c], g) # 0 THEN ExitResponses ELSE {NoResp}) :
              /\ clients' = UserInfoLeave(clients, c, s, g)
              /\ last' = Ev("UserInfo", c, s, g, FALSE, resp)
              /\ IF FirstRoom(clients[c], g) # 0 /\ deleteUserLocks(resp)
                 THEN \* deleteUser blocks on mu, which its caller holds
                      /\ mu' = c
                      /\ sent' = << >>
                      /\ steps' = << Step("remove", TRUE, FALSE), Step("delete", TRUE, FALSE) >>
                 ELSE /\ sent' = UserInfoSent(UserInfoLeave(clients, c, s, g), connState, s, g, FALSE)
                      /\ steps' = ( IF FirstRoom(clients[c], g) # 0
                                    THEN << Step("remove", TRUE, FALSE),
                                            Step("delete", TRUE, CallFailed(resp)) >>
                                    ELSE << Step("create", TRUE, FALSE) >> )
                                  \o SendSteps(sent')
                      /\ UNCHANGED mu
              /\ UNCHANGED connState

\* handleStatus for a payload that decodes and carries a user.
handleStatus ==
  /\ UNCHANGED pc
  /\ \E c \in Conns : Serving(c)
  /\ \E s \in Sessions, g \in Games, st \in BOOLEAN :
       LET flipped == StatusFlip(clients, g, s)
           vals == StatusFlipValues(clients, g, s)
           allReady == clientsReady(flipped, g) = ClientsInRoom(flipped, g)
       IN \E v \in (IF vals = {} THEN {st} ELSE vals),
             resp \in (IF allReady THEN TextResponses ELSE {NoResp}) :
            LET m1 == SendMessageToGameClients(flipped, connState, "Status", g, s, v, "")
                txt == GetText(resp)
                marked == MarkInGame(flipped, g)
                reset == StatusReset(marked, g)
                v2 == IF Entries(marked, g) # {} THEN FALSE ELSE v
            IN /\ IF ~allReady \/ txt.err
                  THEN /\ clients' = flipped
                       /\ sent' = << m1 >>
                       /\ steps' = << Step("flip", TRUE, FALSE), Step("send", FALSE, FALSE) >>
                                   \o ( IF allReady THEN << Step("fetch", FALSE, TRUE) >>
                                        ELSE << >> )
                  ELSE /\ clients' = reset
                       /\ sent' = << m1,
                                     SendStartGameMessage(flipped, connState, g, txt.text),
                                     SendMessageToGameClients(reset, connState, "Status", g, s, v2, "") >>
                       /\ steps' = << Step("flip", TRUE, FALSE), Step("send", FALSE, FALSE),
                                      Step("fetch", FALSE, FALSE), Step("send", TRUE, FALSE),
                                      Step("reset", TRUE, FALSE), Step("send", FALSE, FALSE) >>
               /\ last' = Ev("Status", 0, s, g, st, resp)
               /\ UNCHANGED <<connState, mu>>

\* handleAction for a payload that decodes and carries a user.
handleAction ==
  /\ UNCHANGED pc
  /\ \E c \in Conns : Serving(c)
  /\ \E s \in Sessions, g \in Games :
       LET marked == ActionMark(clients, g, s)
           allMoved == clientsMoved(marked, g) = ClientsInGame(marked, g)
           m1 == SendMessageToGameClients(marked, connState, "Action", g, s, FALSE, "")
       IN /\ IF userTurned(clients, g, s)
             THEN /\ clients' = marked
                  /\ sent' = << >>
                  /\ steps' = << Step("mark", TRUE, FALSE) >>
             ELSE IF allMoved
             THEN /\ clients' = ActionReset(marked, g)
                  /\ sent' = << m1, SendDeleteMessage(marked, connState, g) >>
                  /\ steps' = << Step("mark", TRUE, FALSE) >> \o SendSteps(sent')
                                \o << Step("reset", TRUE, FALSE) >>
             ELSE /\ clients' = marked
                  /\ sent' = << m1 >>
                  /\ steps' = << Step("mark", TRUE, FALSE) >> \o SendSteps(sent')
          /\ last' = Ev("Action", 0, s, g, FALSE, NoResp)
          /\ UNCHANGED <<connState, mu>>

\* handleChoose for a payload that decodes and carries a user.
handleChoose ==
  /\ UNCHANGED pc
  /\ \E c \in Conns : Serving(c)
  /\ \E s \in Sessions, g \in Games :
       LET marked == ChooseMark(clients, g, s)
       IN /\ clients' = marked
          /\ sent' = IF userVoted(clients, g, s) THEN << >>
                     ELSE << UnderLock(SendMessageToGameClients(marked, connState, "Choose",
                                                                g, s, FALSE, "")) >>
          /\ steps' = << Step("mark", TRUE, FALSE) >> \o SendSteps(sent')
          /\ last' = Ev("Choose", 0, s, g, FALSE, NoResp)
          /\ UNCHANGED <<connState, mu>>

\* handleGameInfo for a payload that decodes and carries a user.
handleGameInfo ==
  /\ UNCHANGED pc
  /\ \E c \in Conns : Serving(c)
  /\ \E s \in Sessions, dest \in Sessions :
       /\ IF HoldersOfUser(clients, dest) = {}
          THEN sent' = << >>
          ELSE \E d \in HoldersOfUser(clients, dest) :
                 sent' = << sendUpdateInfoToClient(clients, connState, d, s, dest) >>
       /\ last' = [Ev("GameInfo", 0, s, NoGame, FALSE, NoResp) EXCEPT !.dest = dest]
  /\ steps' = SendSteps(sent')
  /\ UNCHANGED <<clients, connState, mu>>

\* handleChatMessage for a payload that decodes and carries a user.
handleChatMessage ==
  /\ UNCHANGED pc
  /\ \E c \in Conns : Serving(c)
  /\ \E g \in Games :
       /\ sent' = << sendChatMessage(clients, connState, g) >>
       /\ last' = Ev("Chat", 0, 0, g, FALSE, NoResp)
  /\ steps' = SendSteps(sent')
  /\ UNCHANGED <<clients, connState, mu>>

\* handleDisconnect for a payload that decodes and carries a user; last.conn
\* is the connection disconnectUser found the user on (0: none).
handleDisconnect ==
  /\ UNCHANGED pc
  /\ \E c \in Conns : Serving(c)
  /\ \E s \in Sessions, g \in Games :
       \E d \in (IF HoldersOfUser(clients, s) = {} THEN {0} ELSE HoldersOfUser(clients, s)) :
         LET cl1 == IF d = 0 THEN clients ELSE disconnectUser(clients, d, s)
             cs1 == IF d = 0 THEN connState ELSE CloseConn(connState, d)
             m1 == SendMessageToGameClients(cl1, cs1, "UserInfo", g, s, FALSE, "")
         IN \E resp \in (IF updateGameReady(cl1, g) THEN TextResponses ELSE {NoResp}),
               nfail \in BOOLEAN :
              /\ clients' = updateGame(cl1, cs1, g, resp).clients
              /\ connState' = cs1
              /\ sent' = << m1 >> \o updateGame(cl1, cs1, g, resp).sent
              /\ steps' = << Step("remove", TRUE, d = 0), Step("notify", FALSE, nfail),
                             Step("send", FALSE, FALSE) >>
                          \o updateGame(cl1, cs1, g, resp).steps
              /\ last' = Ev("Disconnect", d, s, g, FALSE, resp)
              /\ UNCHANGED mu

\* The handler returns and the read loop waits for the next frame.
Return ==
  /\ UNCHANGED pc
  /\ ~Idle
  /\ last' = Ev("Idle", 0, 0, NoGame, FALSE, NoResp)
  /\ sent' = << >>
  /\ steps' = << >>
  /\ UNCHANGED <<clients, connState, mu>>

Next ==
  \/ Return
  \/ \E c \in Conns : Connect(c)
  \/ \E c \in Conns : ReadLoopEnd(c)
  \/ \E c \in Conns : DropFrame(c)
  \/ \E c \in Conns : NilUserFrame(c)
  \/ \E c \in Conns : handleUserInfo(c)
  \/ handleStatus
  \/ handleAction
  \/ handleChoose
  \/ handleGameInfo
  \/ handleChatMessage
  \/ handleDisconnect

Spec == Init /\ [][Next]_vars

(***************************************************************************)
(* Join replay.  The clients of a room replay every join they learn of on  *)
(* their own connection: SpecJoin lets each UserInfo(connected=true) for   *)
(* (session, game) arrive once on each connection, in any order, between   *)
(* frames that change no roster (chat, dropped frames).                    *)
(***************************************************************************)
Roster(cl, c, g) ==
  IF FirstRoom(cl[c], g) = 0 THEN {}
  ELSE { cl[c][FirstRoom(cl[c], g)].Users[k].SessionID :
           k \in 1..Len(cl[c][FirstRoom(cl[c], g)].Users) }

\* The connections of g's members, and the sessions that joined g.
Members(cl, g) == { c \in DOMAIN cl : FirstRoom(cl[c], g) # 0 }

Joined(cl, g) == UNION { Roster(cl, c, g) : c \in DOMAIN cl }

\* The join of s, not yet seen on c, arrives on c.
JoinOnce(c, s, g) ==
  /\ UNCHANGED pc
  /\ Serving(c)
  /\ s \notin Roster(clients, c, g)
  /\ clients' = UserInfoJoin(clients, c, s, g)
  /\ sent' = UserInfoSent(UserInfoJoin(clients, c, s, g), connState, s, g, TRUE)
  /\ steps' = << Step("append", TRUE, FALSE) >> \o SendSteps(sent')
  /\ last' = Ev("UserInfo", c, s, g, TRUE, NoResp)
  /\ UNCHANGED <<connState, mu>>

\* The join of a member of g is replayed on another member's connection.
\* The replayed frame waits in c's socket and is served whenever c's read
\* loop comes back to ReadMessage, however often other frames are served in
\* between: strong fairness in SpecJoin.
Replay(c, s, g) ==
  /\ c \in Members(clients, g)
  /\ s \in Joined(clients, g)
  /\ JoinOnce(c, s, g)

NextJoin ==
  \/ Return
  \/ \E c \in Conns : Connect(c)
  \/ \E c \in Conns, s \in Sessions, g \in Games : JoinOnce(c, s, g)
  \/ \E c \in Conns : DropFrame(c)
  \/ handleChatMessage

SpecJoin ==
  /\ Init
  /\ [][NextJoin]_vars
  /\ WF_vars(Return)
  /\ \A c \in Conns, s \in Sessions, g \in Games : SF_vars(Replay(c, s, g))

(***************************************************************************)
(* Properties                                                              *)
(***************************************************************************)
MsgsOfType(S, ty) == { i \in 1..Len(S) : S[i].type = ty }

\* Every replica for g is in Lobby / in RoundActive.
Lobby(cl, g) == \A p \in RoomsOf(cl, g) : ~cl[p[1]][p[2]].started

AllStarted(cl, g) == \A p \in RoomsOf(cl, g) : cl[p[1]][p[2]].started

\* C1: a Status toggle in a Lobby room that makes the ready count equal the
\* member count, with a successful prompt fetch, broadcasts exactly one Start
\* to g's connections and leaves every User of g with ready = false and
\* turn = false and every replica for g with started = true.
C1_AllReadyStartsRound ==
  [][ ( /\ last'.type = "Status"
        /\ Lobby(clients, last'.game)
        /\ Entries(clients, last'.game) # {}
        /\ clientsReady(StatusFlip(clients, last'.game, last'.sid), last'.game)
             = ClientsInRoom(StatusFlip(clients, last'.game, last'.sid), last'.game)
        /\ ~GetText(last'.resp).err )
      => ( /\ Cardinality(MsgsOfType(sent', "Start")) = 1
           /\ \A i \in MsgsOfType(sent', "Start") :
                sent'[i].to = RoomsOf(clients', last'.game)
           /\ \A e \in Entries(clients', last'.game) :
                ~UserAt(clients', e).Ready /\ ~UserAt(clients', e).Turn
           /\ AllStarted(clients', last'.game) ) ]_vars

\* C2: in a RoundActive room no DeleteCards is broadcast by an Action that
\* leaves an in-game member who has not acted, and the Action of the last
\* in-game member who had not acted broadcasts exactly one DeleteCards to g's
\* connections and leaves started = false in every replica for g.
C2_AllMovedClearsRound ==
  [][ ( /\ last'.type = "Action"
        /\ AllStarted(clients, last'.game) )
      => ( /\ ( \E e \in Entries(clients', last'.game) :
                  UserAt(clients', e).InGame /\ ~UserAt(clients', e).Turn )
                => MsgsOfType(sent', "Delete") = {}
           /\ ( /\ \E e \in Entries(clients, last'.game) :
                     /\ UserAt(clients, e).InGame
                     /\ UserAt(clients, e).SessionID = last'.sid
                /\ \A e \in Entries(clients, last'.game) :
                     UserAt(clients, e).InGame =>
                       ( UserAt(clients, e).Turn <=> UserAt(clients, e).SessionID # last'.sid ) )
                => ( /\ Cardinality(MsgsOfType(sent', "Delete")) = 1
                     /\ \A i \in MsgsOfType(sent', "Delete") :
                          sent'[i].to = RoomsOf(clients', last'.game)
                     /\ Lobby(clients', last'.game) ) ) ]_vars

\* C3: a Disconnect that removes a member and leaves the remaining members
\* all moved, or all ready, performs the transition of the Action / Status
\* path: DeleteCards, turn and voted cleared, started = false; respectively
\* Start, ready and turn cleared, started = true and a ready=false Status
\* broadcast to g's connections.
C3_DisconnectReevaluates ==
  [][ ( /\ last'.type = "Disconnect"
        /\ last'.conn # 0 )
      => LET g == last'.game
             cl1 == disconnectUser(clients, last'.conn, last'.sid)
             moved == /\ ClientsInGame(cl1, g) > 0
                      /\ \A e \in Entries(cl1, g) : UserAt(cl1, e).InGame => UserAt(cl1, e).Turn
             ready == /\ Entries(cl1, g) # {}
                      /\ \A e \in Entries(cl1, g) : UserAt(cl1, e).Ready
                      /\ ~GetText(last'.resp).err
         IN /\ moved =>
                 /\ MsgsOfType(sent', "Delete") # {}
                 /\ \A e \in Entries(clients', g) :
                      ~UserAt(clients', e).Turn /\ ~UserAt(clients', e).Voted
                 /\ ~ready => Lobby(clients', g)
            /\ ready =>
                 /\ MsgsOfType(sent', "Start") # {}
                 /\ \A e \in Entries(clients', g) :
                      ~UserAt(clients', e).Ready /\ ~UserAt(clients', e).Turn
                 /\ AllStarted(clients', g)
                 /\ \E i \in MsgsOfType(sent', "Status") :
                      /\ sent'[i].game = g
                      /\ ~sent'[i].flag
                      /\ sent'[i].to = RoomsOf(clients', g) ]_vars

\* C4: when every join for g is replayed on every member's connection, in
\* any order, the members' replicas for g end up with the same set of
\* session ids.
Converged ==
  \A g \in Games : \A c \in Members(clients, g), d \in Members(clients, g) :
    Roster(clients, c, g) = Roster(clients, d, g)

C4_Convergence == <>[]Converged

\* Two members' connections each hold both joined sessions, learnt in
\* opposite orders.
C4_Witness ==
  /\ Idle
  /\ Cardinality(Members(clients, "g1")) = 2
  /\ Cardinality(Joined(clients, "g1")) = 2
  /\ Converged
  /\ \E c \in Conns, d \in Conns :
       clients[c][1].Users[1].SessionID # clients[d][1].Users[1].SessionID

\* No socket write was made.
NoWrites(S) == \A i \in 1..Len(S) : S[i].to = {}

\* The User entries of session s in the replicas for g.
EntriesOf(cl, g, s) == { e \in Entries(cl, g) : UserAt(cl, e).SessionID = s }

\* C5: an Action of a session that has not acted sets turn = true and is
\* rebroadcast exactly once; an Action of a session whose turn is already
\* true sends no message and changes no User or replica field.
C5_IdempotentTurn ==
  [][ last'.type = "Action" =>
        LET g == last'.game
            s == last'.sid
        IN /\ ( /\ EntriesOf(clients, g, s) # {}
                /\ \A e \in EntriesOf(clients, g, s) : ~UserAt(clients, e).Turn )
                => ( /\ Cardinality(MsgsOfType(sent', "Action")) = 1
                     /\ \A i \in MsgsOfType(sent', "Action") :
                          sent'[i].to = RoomsOf(clients', g)
                     /\ \E e \in EntriesOf(clients', g, s) : UserAt(clients', e).Turn )
           /\ ( \E e \in EntriesOf(clients, g, s) : UserAt(clients, e).Turn )
                => ( /\ NoWrites(sent')
                     /\ clients' = clients ) ]_vars

\* C6: a Choose of a session whose voted flag is set is not rebroadcast and
\* leaves voted = true; a Choose of a member that has not voted is
\* rebroadcast once to g's connections and sets its voted flag; the entries
\* of the other sessions are left as they were.
C6_IdempotentVote ==
  [][ last'.type = "Choose" =>
        LET g == last'.game
            s == last'.sid
        IN /\ ( \E e \in EntriesOf(clients, g, s) : UserAt(clients, e).Voted )
                => ( /\ NoWrites(sent')
                     /\ MsgsOfType(sent', "Choose") = {}
                     /\ \A e \in EntriesOf(clients, g, s) :
                          UserAt(clients, e).Voted => UserAt(clients', e).Voted )
           /\ ( /\ EntriesOf(clients, g, s) # {}
                /\ \A e \in EntriesOf(clients, g, s) : ~UserAt(clients, e).Voted )
                => ( /\ Cardinality(MsgsOfType(sent', "Choose")) = 1
                     /\ \A i \in MsgsOfType(sent', "Choose") :
                          /\ sent'[i].sid = s
                          /\ sent'[i].to = RoomsOf(clients', g)
                          /\ sent'[i].to # {}
                     /\ \A p \in RoomsOf(clients', g) :
                          \A e \in EntriesOf(clients', g, s) :
                            (e[1] = p[1] /\ e[2] = p[2]) =>
                              \E f \in EntriesOf(clients', g, s) :
                                f[1] = p[1] /\ f[2] = p[2] /\ UserAt(clients', f).Voted )
           /\ Entries(clients', g) = Entries(clients, g)
           /\ \A e \in Entries(clients, g) :
                UserAt(clients, e).SessionID # s => UserAt(clients', e) = UserAt(clients, e) ]_vars

\* A second Choose of a session was suppressed while another member of the
\* room has not voted yet.
C6_Witness ==
  /\ last.type = "Choose"
  /\ sent = << >>
  /\ \E e \in EntriesOf(clients, last.game, last.sid) : UserAt(clients, e).Voted
  /\ \E e \in Entries(clients, last.game) :
       UserAt(clients, e).SessionID # last.sid /\ ~UserAt(clients, e).Voted

\* C7: every room broadcast attempts a write on each connection holding a
\* replica for the game code, the writes to the connections whose socket is
\* open succeed whatever happens to the others, and the broadcast returns no
\* error.
C7_PartialFailureIsolation ==
  \A i \in 1..Len(sent) :
    sent[i].type # "GameInfo" =>
      /\ sent[i].to = RoomsOf(clients, sent[i].game)
      /\ sent[i].ok = { p \in sent[i].to : connState[p[1]] = "open" }
      /\ ~sent[i].err

\* A broadcast with two targets: one write failed, the other succeeded.
C7_Witness ==
  \E i \in 1..Len(sent) :
    /\ Cardinality(sent[i].to) >= 2
    /\ sent[i].ok # {}
    /\ sent[i].ok # sent[i].to

\* C8: a malformed frame (undecodable envelope or payload, unknown tag,
\* payload without its user field) changes nothing: the connection stays
\* open and registered, no replica changes, nothing is written and the lock
\* is free for the next frame.
C8_MalformedFrameDropped ==
  [][ last'.type \in {"BadEnvelope", "UnknownTag", "BadPayload", "NilUser"} =>
        /\ clients' = clients
        /\ connState' = connState
        /\ mu' = mu
        /\ NoWrites(sent') ]_vars

\* C9: a Status, Action or Choose whose session id is in no replica for its
\* game code (which includes a game code no connection holds) writes no
\* message and changes no User or replica field.
C9_LookupErrorReturnsEarly ==
  [][ ( /\ last'.type \in {"Status", "Action", "Choose"}
        /\ EntriesOf(clients, last'.game, last'.sid) = {} )
      => ( /\ NoWrites(sent')
           /\ clients' = clients ) ]_vars

\* C10: when the prompt fetch fails while all members are ready no Start is
\* broadcast and no ready, turn, inGame or started value changes after the
\* all-ready check, the members are still all ready for the next event to
\* retry, and every Start that is broadcast carries a non-empty text.
C10_FetchFailureAborts ==
  [][ /\ ( /\ last'.type = "Status"
           /\ last'.resp \in TextResponses
           /\ GetText(last'.resp).err )
         => ( /\ MsgsOfType(sent', "Start") = {}
              /\ Entries(clients', last'.game) = Entries(clients, last'.game)
              /\ \A e \in Entries(clients, last'.game) :
                   /\ UserAt(clients', e).Turn = UserAt(clients, e).Turn
                   /\ UserAt(clients', e).InGame = UserAt(clients, e).InGame
                   /\ UserAt(clients', e).Voted = UserAt(clients, e).Voted
                   /\ UserAt(clients', e).SessionID # last'.sid =>
                        UserAt(clients', e).Ready = UserAt(clients, e).Ready
                   /\ UserAt(clients', e).Ready
              /\ \A p \in RoomsOf(clients, last'.game) :
                   clients'[p[1]][p[2]].started = clients[p[1]][p[2]].started )
      /\ ( /\ last'.type = "Disconnect"
           /\ last'.resp \in TextResponses
           /\ GetText(last'.resp).err )
         => LET cl1 == IF last'.conn = 0 THEN clients
                       ELSE disconnectUser(clients, last'.conn, last'.sid)
            IN /\ MsgsOfType(sent', "Start") = {}
               /\ Entries(clients', last'.game) = Entries(cl1, last'.game)
               /\ \A e \in Entries(cl1, last'.game) :
                    /\ UserAt(clients', e).InGame = UserAt(cl1, e).InGame
                    /\ UserAt(clients', e).Ready = UserAt(cl1, e).Ready
                    /\ UserAt(clients', e).Ready
               /\ \A p \in RoomsOf(cl1, last'.game) :
                    clients'[p[1]][p[2]].started = cl1[p[1]][p[2]].started
      /\ \A i \in MsgsOfType(sent', "Start") : sent'[i].text # "" ]_vars

\* A Status handler found its room's members all ready, the fetch failed and
\* the members are left ready with nothing started.
C10_Witness ==
  /\ last.type = "Status"
  /\ last.resp \in TextResponses
  /\ GetText(last.resp).err
  /\ Entries(clients, last.game) # {}
  /\ \A e \in Entries(clients, last.game) : UserAt(clients, e).Ready
  /\ MsgsOfType(sent, "Start") = {}

\* The positions of the steps named op in a handler's step list.
StepAt(S, op) == { i \in 1..Len(S) : S[i].op = op }

\* C11: a Disconnect handler removes the user from the registry, then tells
\* the collaborator of the disconnect, then has it delete the user record,
\* then broadcasts UserInfo(connected=false), then re-evaluates the two
\* aggregate transitions, whether or not a collaborator call fails.
C11_DisconnectOrder ==
  [][ last'.type = "Disconnect" =>
        \E i1 \in StepAt(steps', "remove"), i2 \in StepAt(steps', "notify"),
           i3 \in StepAt(steps', "delete"), i4 \in StepAt(steps', "send"),
           i5 \in StepAt(steps', "reeval") :
          /\ i1 < i2 /\ i2 < i3 /\ i3 < i4 /\ i4 < i5
          /\ sent'[1].type = "UserInfo" /\ ~sent'[1].flag ]_vars

\* C12: a UserInfo for (s, g) on connection c creates c's replica for g with
\* started = false when c has none, appends a User for s (connected=true) or
\* removes the entry of s (connected=false), then broadcasts the UserInfo to
\* every connection holding a replica for g and after it an Update for s to
\* the same connections.
C12_UserInfoApplied ==
  [][ last'.type = "UserInfo" =>
        LET c == last'.conn
            s == last'.sid
            g == last'.game
            i == FirstRoom(clients[c], g)
            j == FirstRoom(clients'[c], g)
        IN /\ j # 0
           /\ i = 0 => ~clients'[c][j].started
           /\ (i # 0 /\ last'.flag) =>
                clients'[c][j].Users = Append(clients[c][i].Users, User(LoginOf(s), s))
           /\ (i = 0 /\ last'.flag) =>
                clients'[c][j].Users = << User(LoginOf(s), s) >>
           /\ (i # 0 /\ ~last'.flag) =>
                /\ Len(clients'[c][j].Users) =
                     Len(clients[c][i].Users) - (IF FirstUser(clients[c][i].Users, s) = 0 THEN 0 ELSE 1)
                /\ clients'[c][j] = removeUserFromRoom(clients[c][i], s)
           /\ Len(sent') = 2
           /\ sent'[1].type = "UserInfo" /\ sent'[1].sid = s /\ sent'[1].flag = last'.flag
           /\ sent'[2].type = "Update" /\ sent'[2].sid = s
           /\ \A k \in 1..2 :
                /\ sent'[k].game = g
                /\ sent'[k].to = RoomsOf(clients', g) ]_vars

C15_ReadLoopEndUnregisters ==
  /\ [][ last'.type = "ReadEnd" => clients'[last'.conn] = << >> ]_vars
  /\ [](\A c \in Conns : connState[c] \notin {"open", "closed"} => clients[c] = << >>)

\* C16: no message is written to a connection by a task that owns mu.
C16_NoWriteUnderLock ==
  \A i \in 1..Len(sent) : sent[i].to # {} => ~sent[i].locked

\* C17: the prompt fetch, the disconnect notification and the user deletion
\* are issued by a task that does not own mu.
C17_NoCollaboratorCallUnderLock ==
  \A i \in 1..Len(steps) :
    steps[i].op \in {"fetch", "notify", "delete"} => ~steps[i].locked

\* C18: every broadcast scans the registry for its targets while its task
\* owns mu, and returns after a write was attempted on every target.
C18_ScanUnderLock ==
  \A i \in 1..Len(sent) :
    sent[i].type # "GameInfo" =>
      /\ sent[i].locked
      /\ sent[i].to = RoomsOf(clients, sent[i].game)

\* The messages of type ty that were written to at least one connection.
Written(S, ty) == { i \in MsgsOfType(S, ty) : S[i].to # {} }

\* C19: a Start for g is broadcast only by a Status or Disconnect handler
\* that found g with at least one member and every User entry of g's
\* replicas ready at the instant of its all-ready comparison.
C19_StartOnlyWhenAllReady ==
  [][ Written(sent', "Start") # {} =>
        /\ last'.type \in {"Status", "Disconnect"}
        /\ LET g == last'.game
               snap == IF last'.type = "Status"
                       THEN StatusFlip(clients, g, last'.sid)
                       ELSE updateGameAfterMoved(
                              IF last'.conn = 0 THEN clients
                              ELSE disconnectUser(clients, last'.conn, last'.sid), g)
           IN /\ Entries(snap, g) # {}
              /\ \A e \in Entries(snap, g) : UserAt(snap, e).Ready ]_vars

\* C20: DeleteCards is broadcast for g only by a handler that found at least
\* one in-game User in g's replicas, every in-game User with turn = true,
\* and g not in Lobby.
C20_DeleteOnlyWhenAllMoved ==
  [][ Written(sent', "Delete") # {} =>
        /\ last'.type \in {"Action", "Disconnect"}
        /\ LET g == last'.game
               snap == IF last'.type = "Action"
                       THEN ActionMark(clients, g, last'.sid)
                       ELSE IF last'.conn = 0 THEN clients
                       ELSE disconnectUser(clients, last'.conn, last'.sid)
           IN /\ \E e \in Entries(snap, g) : UserAt(snap, e).InGame
              /\ \A e \in Entries(snap, g) : UserAt(snap, e).InGame => UserAt(snap, e).Turn
              /\ \E p \in RoomsOf(snap, g) : snap[p[1]][p[2]].started ]_vars

\* C22: after an Action has performed the all-moved transition for g, every
\* User entry of g's replicas has turn = false and voted = false and every
\* replica for g has started = false.
C22_AllMovedResetsFlags ==
  [][ ( /\ last'.type = "Action"
        /\ MsgsOfType(sent', "Delete") # {} )
      => ( /\ \A e \in Entries(clients', last'.game) :
                ~UserAt(clients', e).Turn /\ ~UserAt(clients', e).Voted
           /\ Lobby(clients', last'.game) ) ]_vars

\* C23: after a Disconnect for session s has been handled no replica on any
\* connection holds a User entry with session id s (stated for a session
\* that no replica holds twice).
C23_DisconnectRemovesEverywhere ==
  [][ ( /\ last'.type = "Disconnect"
        /\ \A g \in Games : \A e \in EntriesOf(clients, g, last'.sid),
                                  f \in EntriesOf(clients, g, last'.sid) :
              (e[1] = f[1] /\ e[2] = f[2]) => e = f )
      => HoldersOfUser(clients', last'.sid) = {} ]_vars

\* C24: whenever no handler is in progress all replicas for the same game
\* code carry the same started value.
C24_StartedAgrees ==
  Idle =>
    \A g \in Games : \A p \in RoomsOf(clients, g), q \in RoomsOf(clients, g) :
      clients[p[1]][p[2]].started = clients[q[1]][q[2]].started

\* C25: once an Action has performed the all-moved transition that ends the
\* round of g, no User entry of g's replicas has inGame = true and the
\* in-game count of g is 0.
C25_InGameResetAtRoundEnd ==
  [][ ( /\ last'.type = "Action"
        /\ MsgsOfType(sent', "Delete") # {} )
      => ( /\ \A e \in Entries(clients', last'.game) : ~UserAt(clients', e).InGame
           /\ ClientsInGame(clients', last'.game) = 0 ) ]_vars

\* C26: every handler invocation releases mu before it returns, whatever
\* the collaborator answers.
C26_LockReleased ==
  [][ last'.type \in Tags => mu' = 0 ]_vars

\* The connection used by the client of session s: the clients are numbered
\* like the sessions they log in with.
OwnConn(s) == s

\* C27: a Disconnect for session s, whose client joined on its own
\* connection, closes no connection other than that one.
C27_DisconnectClosesOwnConn ==
  [][ ( /\ last'.type = "Disconnect"
        /\ OwnConn(last'.sid) \in HoldersOfUser(clients, last'.sid) )
      => \A c \in Conns : c # OwnConn(last'.sid) => connState'[c] = connState[c] ]_vars

\* C29: a replica holds at most one User entry per session id.
C29_OneEntryPerSession ==
  \A c \in Conns : \A i \in 1..Len(clients[c]) :
    \A k \in 1..Len(clients[c][i].Users), l \in 1..Len(clients[c][i].Users) :
      clients[c][i].Users[k].SessionID = clients[c][i].Users[l].SessionID => k = l

\* C30: whenever no handler is in progress, the entries of one session in
\* the replicas of two connections for the same game code hold the same
\* ready, turn and voted values.
C30_FlagsAgree ==
  Idle =>
    \A g \in Games, s \in Sessions :
      \A e \in EntriesOf(clients, g, s), f \in EntriesOf(clients, g, s) :
        e[1] # f[1] =>
          /\ UserAt(clients, e).Ready = UserAt(clients, f).Ready
          /\ UserAt(clients, e).Turn = UserAt(clients, f).Turn
          /\ UserAt(clients, e).Voted = UserAt(clients, f).Voted

(***************************************************************************)
(* Concurrent Status handlers.  Every connection has its own goroutine     *)
(* (go handleClient), and handleStatus releases mu between its critical    *)
(* sections: SpecRace takes the handler one critical section, one count,   *)
(* one broadcast or one collaborator call at a time, so that the handlers  *)
(* of different connections interleave.  It starts in a room whose joins   *)
(* have all been replayed on every connection and serves Status frames     *)
(* only, each client sending on its own connection; `sent` keeps every     *)
(* write made since the start.                                             *)
(***************************************************************************)
\* no new Status frame is read once this many writes have been made
MaxSent == 3

RECURSIVE JoinAll(_, _, _, _)
\* The joins of sessions 1..n received on connection c.
JoinAll(cl, c, n, g) ==
  IF n = 0 THEN cl ELSE UserInfoJoin(JoinAll(cl, c, n - 1, g), c, n, g)

RECURSIVE JoinEverywhere(_, _, _)
\* ... and on each of the connections 1..m.
JoinEverywhere(cl, m, g) ==
  IF m = 0 THEN cl ELSE JoinAll(JoinEverywhere(cl, m - 1, g), m, NumSessions, g)

InitRace ==
  /\ clients = JoinEverywhere([c \in Conns |-> << >>], NumConns, "g1")
  /\ connState = [c \in Conns |-> "open"]
  /\ mu = 0
  /\ sent = << >>
  /\ steps = << >>
  /\ last = Ev("Idle", 0, 0, NoGame, FALSE, NoResp)
  /\ pc = [c \in Conns |-> NoTask]

\* The goroutine of c is at statement `at` and mu is free to take.
At(c, at) == pc[c].at = at /\ connState[c] = "open" /\ mu = 0

\* A Status frame is read and decoded; first critical section: the toggle.
StatusToggle(c) ==
  /\ At(c, "read")
  /\ Len(sent) < MaxSent
  /\ \E s \in Sessions, g \in Games, st \in BOOLEAN :
       /\ OwnConn(s) = c
       /\ \E v \in (IF StatusFlipValues(clients, g, s) = {} THEN {st}
                    ELSE StatusFlipValues(clients, g, s)) :
            /\ clients' = StatusFlip(clients, g, s)
            /\ pc' = [pc EXCEPT ![c] = Task("users", s, g, v, 0, 0, "")]
  /\ UNCHANGED <<connState, mu, sent, last, steps>>

\* users := ClientsInRoom(gameID), which locks mu for its scan.
StatusCountUsers(c) ==
  /\ At(c, "users")
  /\ pc' = [pc EXCEPT ![c].at = "readyUsers",
                      ![c].users = ClientsInRoom(clients, pc[c].game)]
  /\ UNCHANGED <<clients, connState, mu, sent, last, steps>>

\* readyUsers := clientsReady(gameID), which locks mu for its scan.
StatusCountReady(c) ==
  /\ At(c, "readyUsers")
  /\ pc' = [pc EXCEPT ![c].at = "broadcast",
                      ![c].readyUsers = clientsReady(clients, pc[c].game)]
  /\ UNCHANGED <<clients, connState, mu, sent, last, steps>>

\* SendStatusToGameClients, then the comparison of the two counts: the
\* handler returns when they differ.
StatusBroadcast(c) ==
  /\ At(c, "broadcast")
  /\ sent' = Append(sent, SendMessageToGameClients(clients, connState, "Status",
                            pc[c].game, pc[c].sid, pc[c].flag, ""))
  /\ pc' = [pc EXCEPT ![c] = IF pc[c].readyUsers = pc[c].users
                             THEN [pc[c] EXCEPT !.at = "fetch"]
                             ELSE NoTask]
  /\ UNCHANGED <<clients, connState, mu, last, steps>>

\* GetText: the handler returns when the fetch fails.
StatusFetch(c) ==
  /\ At(c, "fetch")
  /\ \E resp \in TextResponses :
       pc' = [pc EXCEPT ![c] = IF GetText(resp).err THEN NoTask
                               ELSE [pc[c] EXCEPT !.at = "start",
                                                  !.text = GetText(resp).text]]
  /\ UNCHANGED <<clients, connState, mu, sent, last, steps>>

\* SendStartGameMessage: under mu, the Start broadcast and the InGame marks.
StatusStart(c) ==
  /\ At(c, "start")
  /\ sent' = Append(sent, SendStartGameMessage(clients, connState, pc[c].game, pc[c].text))
  /\ clients' = MarkInGame(clients, pc[c].game)
  /\ pc' = [pc EXCEPT ![c].at = "reset"]
  /\ UNCHANGED <<connState, mu, last, steps>>

\* Second critical section: ready and turn cleared, started set.
StatusClear(c) ==
  /\ At(c, "reset")
  /\ clients' = StatusReset(clients, pc[c].game)
  /\ pc' = [pc EXCEPT ![c].at = "final",
                      ![c].flag = IF Entries(clients, pc[c].game) # {} THEN FALSE ELSE @]
  /\ UNCHANGED <<connState, mu, sent, last, steps>>

\* The final SendStatusToGameClients; the handler returns.
StatusFinal(c) ==
  /\ At(c, "final")
  /\ sent' = Append(sent, SendMessageToGameClients(clients, connState, "Status",
                            pc[c].game, pc[c].sid, pc[c].flag, ""))
  /\ pc' = [pc EXCEPT ![c] = NoTask]
  /\ UNCHANGED <<clients, connState, mu, last, steps>>

NextRace ==
  \/ \E c \in Conns : StatusToggle(c)
  \/ \E c \in Conns : StatusCountUsers(c)
  \/ \E c \in Conns : StatusCountReady(c)
  \/ \E c \in Conns : StatusBroadcast(c)
  \/ \E c \in Conns : StatusFetch(c)
  \/ \E c \in Conns : StatusStart(c)
  \/ \E c \in Conns : StatusClear(c)
  \/ \E c \in Conns : StatusFinal(c)

SpecRace == InitRace /\ [][NextRace]_vars

\* C21: however the Status handlers of different connections interleave,
\* the all-ready transition of a room is answered by one Start broadcast:
\* among the writes made since the room was in the lobby there is at most
\* one Start broadcast.
C21_StartOnce ==
  Cardinality(Written(sent, "Start")) <= 1

(***************************************************************************)
(* Dropped connections.  SpecDrop serves joins (each client joins on its   *)
(* own connection and the members replay the joins they learn of), Status  *)
(* and Action frames, and lets read loops end; no Disconnect event is ever *)
(* received.  A                                                            *)
(* handler in progress returns, and a client whose connection is open      *)
(* keeps sending its Action: the frame waits in the socket until the read  *)
(* loop of its connection takes it (strong fairness).                      *)
(***************************************************************************)
\* The client of session s acts: its Action frame is taken from its own
\* connection.
Act(s) ==
  /\ Serving(OwnConn(s))
  /\ handleAction
  /\ last'.sid = s

NextDrop ==
  \/ Return
  \/ \E c \in Conns : Connect(c)
  \/ \E s \in Sessions, g \in Games : JoinOnce(OwnConn(s), s, g)
  \/ \E c \in Conns, s \in Sessions, g \in Games : Replay(c, s, g)
  \/ handleStatus
  \/ handleAction
  \/ \E c \in Conns : ReadLoopEnd(c)

SpecDrop ==
  /\ Init
  /\ [][NextDrop]_vars
  /\ WF_vars(Return)
  /\ \A s \in Sessions : SF_vars(Act(s))

\* C28: when the read loop of a client's connection ends while a replica of
\* g is started, and every client that is still connected acts, then the
\* replicas of g eventually all have started = false.
C28_DropEndsRound ==
  \A g \in Games :
    (last.type = "ReadEnd" /\ ~Lobby(clients, g)) ~> Lobby(clients, g)

(***************************************************************************)
(* Two rooms.  SpecRooms starts after one client has connected and joined, *)
(* on its own connection, a room with another game code, and then serves   *)
(* the frames that name a room, all of them for the game codes of Games.   *)
(***************************************************************************)
\* A game code the frames served do not carry.
OtherGame == "g2"

InitRooms ==
  /\ \E s \in Sessions :
       /\ clients = UserInfoJoin([d \in Conns |-> << >>], OwnConn(s), s, OtherGame)
       /\ connState = [d \in Conns |-> IF d = OwnConn(s) THEN "open" ELSE "idle"]
  /\ mu = 0
  /\ sent = << >>
  /\ steps = << >>
  /\ last = Ev("Idle", 0, 0, NoGame, FALSE, NoResp)
  /\ pc = [c \in Conns |-> NoTask]

\* The frames whose payload names a room.
RoomTags == {"UserInfo", "Status", "Action", "Choose", "Chat", "Disconnect"}

NextRooms ==
  \/ Return
  \/ \E c \in Conns : Connect(c)
  \/ \E c \in Conns : handleUserInfo(c)
  \/ handleStatus
  \/ handleAction
  \/ handleChoose
  \/ handleChatMessage
  \/ handleDisconnect

SpecRooms == InitRooms /\ [][NextRooms]_vars

\* C31: a UserInfo, Status, Action, Choose, Chat or Disconnect frame for
\* game code G leaves every replica with another game code as it was
\* (roster, User flags, started) and writes to no connection that holds no
\* replica for G.
C31_RoomIsolation ==
  [][ last'.type \in RoomTags
      => ( /\ \A c \in Conns : \A i \in 1..Len(clients[c]) :
                clients[c][i].GameID # last'.game
                  => ( i <= Len(clients'[c]) /\ clients'[c][i] = clients[c][i] )
           /\ \A k \in 1..Len(sent') : \A p \in sent'[k].to :
                FirstRoom(clients'[p[1]], last'.game) # 0 ) ]_vars

\* The indices of c's replicas for game code g.
ReplicasOf(cl, c, g) == { i \in 1..Len(cl[c]) : cl[c][i].GameID = g }

\* The writes of message m that go to connection c.
CopiesTo(m, c) == { p \in m.to : p[1] = c }

\* C32: every connection holds at most one replica per game code, and a
\* broadcast for game code G writes exactly one copy to each connection
\* that holds a replica for G, the originating one included, and none to
\* any other connection.
C32_OneCopyPerConnection ==
  /\ \A c \in Conns : \A g \in Games \cup {OtherGame, NoGame} :
       Cardinality(ReplicasOf(clients, c, g)) <= 1
  /\ \A k \in 1..Len(sent) :
       sent[k].type # "GameInfo" =>
         \A c \in Conns :
           Cardinality(CopiesTo(sent[k], c))
             = IF ReplicasOf(clients, c, sent[k].game) # {} THEN 1 ELSE 0

\* A join on a connection that already holds the replica has been
\* broadcast to every connection, the joining one included.
C32_Witness ==
  /\ last.type = "UserInfo" /\ last.flag
  /\ Len(clients[last.conn]) = 1
  /\ Len(clients[last.conn][1].Users) = 2
  /\ \E k \in 1..Len(sent) :
       /\ sent[k].type = "UserInfo"
       /\ \A c \in Conns : Cardinality(CopiesTo(sent[k], c)) = 1
====
